---- MODULE Spec2Model ----
(***************************************************************************)
(* Model of the abbreviated 5-bit Baudot codec: the five script            *)
(* generations main.py, V1.2.py, V1.3.py, 1.5/1.53.py and 1.5/1.54.py.     *)
(*                                                                         *)
(* A text is a sequence of characters; a character is a one-character      *)
(* string, except that the two non-ASCII characters of the model are       *)
(* written by their code point ("U+00E9" is e-acute, "U+00C9" is E-acute). *)
(* A bit string is a sequence over {0, 1}, a byte string a sequence over   *)
(* 0..255.                                                                 *)
(***************************************************************************)
EXTENDS Integers, Sequences, FiniteSets, TLC

(***************************************************************************)
(* Bounds of the model.                                                    *)
(***************************************************************************)
MaxPieces == 3
MaxBytes == 3
MaxTextLen == 3
MaxLines == 3
MaxBits == 9

(***************************************************************************)
(* Generic helpers on sequences (Python slices and str methods).           *)
(***************************************************************************)
Min(a, b) == IF a < b THEN a ELSE b

Max(a, b) == IF a > b THEN a ELSE b

Range(s) == {s[i] : i \in 1..Len(s)}

\* s[-n:] for n > 0
LastN(s, n) == SubSeq(s, Max(1, Len(s) - n + 1), Len(s))

\* s[:-n] for n > 0
DropLastN(s, n) == SubSeq(s, 1, Len(s) - n)

RECURSIVE Flatten(_)
Flatten(ss) == IF ss = << >> THEN << >> ELSE Head(ss) \o Flatten(Tail(ss))

(***************************************************************************)
(* The symbol table (identical in all five scripts).                       *)
(***************************************************************************)
BAUDOT_TABLE ==
    ("a" :> <<0,0,0,1,1>>) @@ ("b" :> <<1,1,0,0,1>>) @@ ("c" :> <<0,1,1,1,0>>) @@
    ("d" :> <<0,1,0,0,1>>) @@ ("e" :> <<0,0,0,0,1>>) @@ ("f" :> <<0,1,1,0,1>>) @@
    ("g" :> <<1,1,0,1,0>>) @@ ("h" :> <<1,0,1,0,0>>) @@ ("i" :> <<0,0,1,1,0>>) @@
    ("j" :> <<0,1,0,1,1>>) @@ ("k" :> <<0,1,1,1,1>>) @@ ("l" :> <<1,0,0,1,0>>) @@
    ("m" :> <<1,1,1,0,0>>) @@ ("n" :> <<0,1,1,0,0>>) @@ ("o" :> <<1,1,0,0,0>>) @@
    ("p" :> <<1,0,1,1,0>>) @@ ("q" :> <<1,0,1,1,1>>) @@ ("r" :> <<0,1,0,1,0>>) @@
    ("s" :> <<0,0,1,0,1>>) @@ ("t" :> <<1,0,0,0,0>>) @@ ("u" :> <<0,0,1,1,1>>) @@
    ("v" :> <<1,1,1,1,0>>) @@ ("w" :> <<1,0,0,1,1>>) @@ ("x" :> <<1,1,1,0,1>>) @@
    ("y" :> <<1,0,1,0,1>>) @@ ("z" :> <<1,0,0,0,1>>) @@ (" " :> <<0,0,1,0,0>>) @@
    ("1" :> <<0,0,0,1,0>>) @@ ("2" :> <<1,1,0,1,1>>) @@ ("3" :> <<1,1,1,1,1>>)

\* mutant of REVERSE_TABLE: the digits are left out
ReverseTableOfLetters ==
    [code \in {BAUDOT_TABLE[k] : k \in DOMAIN BAUDOT_TABLE \ {"1", "2", "3"}} |->
        CHOOSE k \in DOMAIN BAUDOT_TABLE : BAUDOT_TABLE[k] = code]

\* {v: k for k, v in BAUDOT_TABLE.items()}: a later key overwrites an
\* earlier one with the same code; the table has no such pair.
REVERSE_TABLE ==
    [code \in {BAUDOT_TABLE[k] : k \in DOMAIN BAUDOT_TABLE} |->
        CHOOSE k \in DOMAIN BAUDOT_TABLE : BAUDOT_TABLE[k] = code]

STOP_WORD == <<"s", "t", "o", "p">>

(***************************************************************************)
(* Character classes of Python's str methods and of unicodedata, for the   *)
(* characters the model uses.                                              *)
(***************************************************************************)
Alphabet ==
    <<"a","b","c","d","e","f","g","h","i","j","k","l","m",
      "n","o","p","q","r","s","t","u","v","w","x","y","z">>

LowerLetters == Range(Alphabet)

\* ord(char)
Ord(c) ==
    CASE c = "\n" -> 10
      [] c = "\t" -> 9
      [] c = " " -> 32
      [] c = "!" -> 33
      [] c = "#" -> 35
      [] c = "=" -> 61
      [] c = "1" -> 49
      [] c = "2" -> 50
      [] c = "3" -> 51
      [] c = "A" -> 65
      [] c = "H" -> 72
      [] c = "U+00C9" -> 201
      [] c = "U+00E9" -> 233
      [] OTHER -> 96 + (CHOOSE i \in 1..Len(Alphabet) : Alphabet[i] = c)

\* char.isupper(): a cased character that is upper case
IsUpper(c) == c \in {"A", "H", "U+00C9"}

\* a cased character that is lower case
IsLowerCased(c) == c \in LowerLetters \cup {"U+00E9"}

\* str.islower(): at least one cased character and no upper-case one
IsLowerStr(s) ==
    /\ \E i \in 1..Len(s) : IsLowerCased(s[i])
    /\ \A i \in 1..Len(s) : ~IsUpper(s[i])

\* char.isalpha()
IsAlpha(c) == IsUpper(c) \/ IsLowerCased(c)

\* unicodedata.category(char)[0] == "C"
IsControlCategory(c) == c \in {"\n", "\t"}

\* the characters str.split() and str.strip() treat as white space
IsSpace(c) == c \in {" ", "\n", "\t"}

(***************************************************************************)
(* Bit packer / unpacker.                                                  *)
(***************************************************************************)
\* int(bits, 2)
RECURSIVE BitsToInt(_)
BitsToInt(bits) ==
    IF bits = << >> THEN 0
    ELSE 2 * BitsToInt(SubSeq(bits, 1, Len(bits) - 1)) + bits[Len(bits)]

\* the padding loop: while len(bitstring) % 8 != 0: bitstring += "0"
PadToByte(bitstring) ==
    bitstring \o [i \in 1..((8 - (Len(bitstring) % 8)) % 8) |-> 0]

\* mutant of bits_to_bytes: an incomplete last byte is dropped, not padded
bits_to_bytes_truncating(bitstring) ==
    [k \in 1..(Len(bitstring) \div 8) |->
        BitsToInt(SubSeq(bitstring, 8 * (k - 1) + 1, 8 * k))]

bits_to_bytes(bitstring) ==
    LET padded == PadToByte(bitstring)
    IN  [k \in 1..(Len(padded) \div 8) |->
            BitsToInt(SubSeq(padded, 8 * (k - 1) + 1, 8 * k))]

\* ''.join(f'{byte:08b}' for byte in byte_data)
bytes_to_bits(byte_data) ==
    [i \in 1..(8 * Len(byte_data)) |->
        (byte_data[((i - 1) \div 8) + 1] \div (2 ^ (7 - ((i - 1) % 8)))) % 2]

(***************************************************************************)
(* Framer, encode side: the code sequence of the message followed by the   *)
(* code sequence of the stop word, packed.  A character outside the table  *)
(* makes BAUDOT_TABLE[char] fail; Encodable says that no lookup fails.     *)
(***************************************************************************)
Encodable(message) == \A i \in 1..Len(message) : message[i] \in DOMAIN BAUDOT_TABLE

CodesOf(message) == Flatten([i \in 1..Len(message) |-> BAUDOT_TABLE[message[i]]])

build_encoded_bytes(message) ==
    bits_to_bytes(CodesOf(message) \o CodesOf(STOP_WORD))

(***************************************************************************)
(* Framer, decode side: the scan loop of decode_from_file, one iteration   *)
(* of the for loop per ScanStep.  st.i is the loop variable.               *)
(***************************************************************************)
ScanStart == [pc |-> "SCANNING", i |-> 0, decoded |-> << >>, stop_buffer |-> << >>]


\* mutant of ScanStep: the window is never cut back to four characters
ScanStepNoTrim(bitstring, st) ==
    IF st.i >= Len(bitstring)
    THEN [st EXCEPT !.pc = "EXHAUSTED"]
    ELSE LET chunk == SubSeq(bitstring, st.i + 1, Min(st.i + 5, Len(bitstring)))
         IN  IF Len(chunk) < 5
             THEN [st EXCEPT !.pc = "EXHAUSTED"]
             ELSE IF chunk \notin DOMAIN REVERSE_TABLE
             THEN [st EXCEPT !.i = @ + 5]
             ELSE LET char == REVERSE_TABLE[chunk]
                      stop_buffer == Append(st.stop_buffer, char)
                  IN  [pc |-> IF stop_buffer = STOP_WORD THEN "TERMINATED" ELSE "SCANNING",
                       i |-> st.i + 5,
                       decoded |-> Append(st.decoded, char),
                       stop_buffer |-> stop_buffer]

\* mutant of ScanStep: an unassigned chunk empties the window
ScanStepResetOnUnknown(bitstring, st) ==
    IF st.i >= Len(bitstring)
    THEN [st EXCEPT !.pc = "EXHAUSTED"]
    ELSE LET chunk == SubSeq(bitstring, st.i + 1, Min(st.i + 5, Len(bitstring)))
         IN  IF Len(chunk) < 5
             THEN [st EXCEPT !.pc = "EXHAUSTED"]
             ELSE IF chunk \notin DOMAIN REVERSE_TABLE
             THEN [st EXCEPT !.i = @ + 5, !.stop_buffer = << >>]
             ELSE LET char == REVERSE_TABLE[chunk]
                      buf == Append(st.stop_buffer, char)
                      stop_buffer == IF Len(buf) > Len(STOP_WORD)
                                     THEN LastN(buf, Len(STOP_WORD))
                                     ELSE buf
                  IN  [pc |-> IF stop_buffer = STOP_WORD THEN "TERMINATED" ELSE "SCANNING",
                       i |-> st.i + 5,
                       decoded |-> Append(st.decoded, char),
                       stop_buffer |-> stop_buffer]

\* mutant of ScanStep: the stop word counts only in the last complete chunks
ScanStepMatchAtEnd(bitstring, st) ==
    IF st.i >= Len(bitstring)
    THEN [st EXCEPT !.pc = "EXHAUSTED"]
    ELSE LET chunk == SubSeq(bitstring, st.i + 1, Min(st.i + 5, Len(bitstring)))
         IN  IF Len(chunk) < 5
             THEN [st EXCEPT !.pc = "EXHAUSTED"]
             ELSE IF chunk \notin DOMAIN REVERSE_TABLE
             THEN [st EXCEPT !.i = @ + 5]
             ELSE LET char == REVERSE_TABLE[chunk]
                      buf == Append(st.stop_buffer, char)
                      stop_buffer == IF Len(buf) > Len(STOP_WORD)
                                     THEN LastN(buf, Len(STOP_WORD))
                                     ELSE buf
                  IN  [pc |-> IF stop_buffer = STOP_WORD /\ st.i + 10 > Len(bitstring)
                              THEN "TERMINATED" ELSE "SCANNING",
                       i |-> st.i + 5,
                       decoded |-> Append(st.decoded, char),
                       stop_buffer |-> stop_buffer]

\* mutant of ScanStep: a group of fewer than 5 bits is passed over, not the end
ScanStepNoBreak(bitstring, st) ==
    IF st.i >= Len(bitstring)
    THEN [st EXCEPT !.pc = "EXHAUSTED"]
    ELSE LET chunk == SubSeq(bitstring, st.i + 1, Min(st.i + 5, Len(bitstring)))
         IN  IF chunk \notin DOMAIN REVERSE_TABLE
             THEN [st EXCEPT !.i = @ + 5]
             ELSE LET char == REVERSE_TABLE[chunk]
                      buf == Append(st.stop_buffer, char)
                      stop_buffer == IF Len(buf) > Len(STOP_WORD)
                                     THEN LastN(buf, Len(STOP_WORD))
                                     ELSE buf
                  IN  [pc |-> IF stop_buffer = STOP_WORD THEN "TERMINATED" ELSE "SCANNING",
                       i |-> st.i + 5,
                       decoded |-> Append(st.decoded, char),
                       stop_buffer |-> stop_buffer]

ScanStep(bitstring, st) ==
    IF st.i >= Len(bitstring)
    THEN [st EXCEPT !.pc = "EXHAUSTED"]                 \* range() is used up
    ELSE LET chunk == SubSeq(bitstring, st.i + 1, Min(st.i + 5, Len(bitstring)))
         IN  IF Len(chunk) < 5
             THEN [st EXCEPT !.pc = "EXHAUSTED"]        \* break
             ELSE IF chunk \notin DOMAIN REVERSE_TABLE
             THEN [st EXCEPT !.i = @ + 5]               \* continue
             ELSE LET char == REVERSE_TABLE[chunk]
                      decoded == Append(st.decoded, char)
                      buf == Append(st.stop_buffer, char)
                      stop_buffer == IF Len(buf) > Len(STOP_WORD)
                                     THEN LastN(buf, Len(STOP_WORD))
                                     ELSE buf
                  IN  [pc |-> IF stop_buffer = STOP_WORD THEN "TERMINATED" ELSE "SCANNING",
                       i |-> st.i + 5,
                       decoded |-> decoded,
                       stop_buffer |-> stop_buffer]

RECURSIVE ScanFrom(_, _)
ScanFrom(bitstring, st) ==
    IF st.pc = "SCANNING" THEN ScanFrom(bitstring, ScanStep(bitstring, st)) ELSE st

Scan(bitstring) == ScanFrom(bitstring, ScanStart)

(***************************************************************************)
(* Abbreviation layer.  A dictionary is the sequence of its items          *)
(* <<full, short>> in insertion order, as a Python dict keeps them.        *)
(***************************************************************************)
\* message.split(): the maximal runs of characters that are not white space
RECURSIVE SplitFrom(_, _, _, _)
SplitFrom(s, i, word, words) ==
    IF i > Len(s)
    THEN IF word = << >> THEN words ELSE Append(words, word)
    ELSE IF IsSpace(s[i])
         THEN SplitFrom(s, i + 1, << >>, IF word = << >> THEN words ELSE Append(words, word))
         ELSE SplitFrom(s, i + 1, Append(word, s[i]), words)

Split(s) == SplitFrom(s, 1, << >>, << >>)

\* " ".join(words)
RECURSIVE Join(_)
Join(words) ==
    IF words = << >> THEN << >>
    ELSE IF Len(words) = 1 THEN words[1]
    ELSE words[1] \o <<" ">> \o Join(Tail(words))

\* d.get(key, default)
DictGet(d, key, default) ==
    IF \E i \in 1..Len(d) : d[i][1] = key
    THEN d[CHOOSE i \in 1..Len(d) : d[i][1] = key][2]
    ELSE default

DictKeys(d) == {d[i][1] : i \in 1..Len(d)}

DictValues(d) == {d[i][2] : i \in 1..Len(d)}

\* {v: k for k, v in d.items()}: one item per distinct value, at the place of
\* its first occurrence, holding the key of its last occurrence
RECURSIVE ReverseFrom(_, _)
ReverseFrom(d, i) ==
    IF i > Len(d) THEN << >>
    ELSE IF \E j \in 1..(i - 1) : d[j][2] = d[i][2]
         THEN ReverseFrom(d, i + 1)
         ELSE LET last == CHOOSE j \in i..Len(d) :
                              /\ d[j][2] = d[i][2]
                              /\ \A k \in (j + 1)..Len(d) : d[k][2] /= d[i][2]
              IN  << <<d[i][2], d[last][1]>> >> \o ReverseFrom(d, i + 1)

ReverseDict(d) == ReverseFrom(d, 1)

\* " ".join(d.get(word, word) for word in message.split())
SubstituteWords(d, message) ==
    LET words == Split(message)
    IN  Join([i \in 1..Len(words) |-> DictGet(d, words[i], words[i])])

(***************************************************************************)
(* load_shortcuts (1.53): one line of abv.txt at a time.                   *)
(***************************************************************************)
\* s.strip()
RECURSIVE LStrip(_)
LStrip(s) == IF s /= << >> /\ IsSpace(Head(s)) THEN LStrip(Tail(s)) ELSE s

RECURSIVE RStrip(_)
RStrip(s) ==
    IF s /= << >> /\ IsSpace(s[Len(s)]) THEN RStrip(SubSeq(s, 1, Len(s) - 1)) ELSE s

Strip(s) == RStrip(LStrip(s))

\* s.replace(c, "")
Remove(s, c) == SelectSeq(s, LAMBDA x : x /= c)

\* s.rstrip("\n")
RECURSIVE RStripNewlines(_)
RStripNewlines(s) ==
    IF s /= << >> /\ s[Len(s)] = "\n" THEN RStripNewlines(SubSeq(s, 1, Len(s) - 1)) ELSE s


\* mutant of LoadLine: the duplicate-shortcut check is missing
LoadLineNoDuplicateCheck(shortcuts, rawline) ==
    LET line == Strip(rawline)
    IN  IF line = << >> \/ line[1] = "#" THEN shortcuts
        ELSE IF "=" \notin Range(line) THEN shortcuts
        ELSE LET eq == CHOOSE i \in 1..Len(line) :
                           line[i] = "=" /\ \A j \in 1..(i - 1) : line[j] /= "="
                 full == Remove(Strip(SubSeq(line, 1, eq - 1)), " ")
                 short == Remove(Strip(SubSeq(line, eq + 1, Len(line))), " ")
             IN  IF ~IsLowerStr(full) \/ ~IsLowerStr(short) THEN shortcuts
                 ELSE IF ~Encodable(full) THEN shortcuts
                 ELSE IF ~Encodable(short) THEN shortcuts
                 ELSE IF full \in DictKeys(shortcuts) THEN shortcuts
                 ELSE Append(shortcuts, <<full, short>>)

\* mutant of LoadLine: a duplicate shortcut discards the entries accepted so far
LoadLineFatalDuplicate(shortcuts, rawline) ==
    LET line == Strip(rawline)
    IN  IF line = << >> \/ line[1] = "#" THEN shortcuts
        ELSE IF "=" \notin Range(line) THEN shortcuts
        ELSE LET eq == CHOOSE i \in 1..Len(line) :
                           line[i] = "=" /\ \A j \in 1..(i - 1) : line[j] /= "="
                 full == Remove(Strip(SubSeq(line, 1, eq - 1)), " ")
                 short == Remove(Strip(SubSeq(line, eq + 1, Len(line))), " ")
             IN  IF ~IsLowerStr(full) \/ ~IsLowerStr(short) THEN shortcuts
                 ELSE IF ~Encodable(full) THEN shortcuts
                 ELSE IF ~Encodable(short) THEN shortcuts
                 ELSE IF full \in DictKeys(shortcuts) THEN shortcuts
                 ELSE IF short \in DictValues(shortcuts) THEN << >>
                 ELSE Append(shortcuts, <<full, short>>)

LoadLine(shortcuts, rawline) ==
    LET line == Strip(rawline)
    IN  IF line = << >> \/ line[1] = "#" THEN shortcuts
        ELSE IF "=" \notin Range(line) THEN shortcuts
        ELSE LET eq == CHOOSE i \in 1..Len(line) :
                           line[i] = "=" /\ \A j \in 1..(i - 1) : line[j] /= "="
                 full == Remove(Strip(SubSeq(line, 1, eq - 1)), " ")
                 short == Remove(Strip(SubSeq(line, eq + 1, Len(line))), " ")
             IN  IF ~IsLowerStr(full) \/ ~IsLowerStr(short) THEN shortcuts
                 ELSE IF ~Encodable(full) THEN shortcuts
                 ELSE IF ~Encodable(short) THEN shortcuts
                 ELSE IF full \in DictKeys(shortcuts) THEN shortcuts
                 ELSE IF short \in DictValues(shortcuts) THEN shortcuts
                 ELSE Append(shortcuts, <<full, short>>)

RECURSIVE LoadLines(_, _)
LoadLines(shortcuts, lines) ==
    IF lines = << >> THEN shortcuts
    ELSE LoadLines(LoadLine(shortcuts, Head(lines)), Tail(lines))

\* abv is [exists, lines]; a missing abv.txt gives the empty dictionary
load_shortcuts(abv) == IF abv.exists THEN LoadLines(<< >>, abv.lines) ELSE << >>

(***************************************************************************)
(* Compression adapter: zlib.compress and zlib.decompress.  The stream is  *)
(* the zlib container (two header bytes, deflate data, Adler-32 of the     *)
(* plain bytes, big-endian).  The deflate data of the model is made of     *)
(* fixed-Huffman blocks of literals, which is what zlib emits for short    *)
(* inputs without repeated substrings (for one with a repeat zlib emits a  *)
(* back-reference, which decompresses to the same bytes).  Stored blocks,  *)
(* dynamic-Huffman blocks and back-references are not modelled: inflating  *)
(* one fails here, and no byte string of the model starts such a stream.   *)
(***************************************************************************)
RECURSIVE AdlerFrom(_, _, _, _)
AdlerFrom(data, i, s1, s2) ==
    IF i > Len(data) THEN <<s2 \div 256, s2 % 256, s1 \div 256, s1 % 256>>
    ELSE LET t1 == (s1 + data[i]) % 65521
         IN  AdlerFrom(data, i + 1, t1, (s2 + t1) % 65521)

Adler32(data) == AdlerFrom(data, 1, 1, 0)

\* the n-bit binary numeral of v, most significant bit first
NumeralBits(v, n) == [i \in 1..n |-> (v \div (2 ^ (n - i))) % 2]

\* the fixed Huffman code of a literal byte
LiteralCode(b) == IF b < 144 THEN NumeralBits(48 + b, 8) ELSE NumeralBits(400 + (b - 144), 9)

\* deflate fills each byte from its least significant bit
DeflateBytes(bits) ==
    LET padded == PadToByte(bits)
    IN  [k \in 1..(Len(padded) \div 8) |->
            BitsToInt([j \in 1..8 |-> padded[8 * (k - 1) + (9 - j)]])]

DeflateBits(bytes) ==
    [i \in 1..(8 * Len(bytes)) |->
        (bytes[((i - 1) \div 8) + 1] \div (2 ^ ((i - 1) % 8))) % 2]

ZlibCompress(byte_data) ==
    <<120, 156>>
    \o DeflateBytes(<<1, 1, 0>>
                    \o Flatten([i \in 1..Len(byte_data) |-> LiteralCode(byte_data[i])])
                    \o <<0, 0, 0, 0, 0, 0, 0>>)
    \o Adler32(byte_data)

\* Inflate the blocks that start at bit p (0-based) of bits.  The result is
\* [ok, out, p]: p is the bit after the end-of-block code of the last block.
RECURSIVE InflateSymbols(_, _, _, _)
RECURSIVE InflateBlock(_, _, _)
InflateSymbols(bits, p, out, final) ==
    IF p + 7 > Len(bits) THEN [ok |-> FALSE, out |-> out, p |-> p]
    ELSE LET v7 == BitsToInt(SubSeq(bits, p + 1, p + 7))
         IN  IF v7 = 0
             THEN IF final THEN [ok |-> TRUE, out |-> out, p |-> p + 7]
                  ELSE InflateBlock(bits, p + 7, out)
             ELSE IF v7 <= 23 THEN [ok |-> FALSE, out |-> out, p |-> p]
             ELSE IF p + 8 > Len(bits) THEN [ok |-> FALSE, out |-> out, p |-> p]
             ELSE LET v8 == 2 * v7 + bits[p + 8]
                  IN  IF v8 >= 48 /\ v8 <= 191
                      THEN InflateSymbols(bits, p + 8, Append(out, v8 - 48), final)
                      ELSE IF v8 >= 192 /\ v8 <= 199
                      THEN [ok |-> FALSE, out |-> out, p |-> p]
                      ELSE IF p + 9 > Len(bits) THEN [ok |-> FALSE, out |-> out, p |-> p]
                      ELSE LET v9 == 2 * v8 + bits[p + 9]
                           IN  InflateSymbols(bits, p + 9, Append(out, 144 + (v9 - 400)), final)

InflateBlock(bits, p, out) ==
    IF p + 3 > Len(bits) THEN [ok |-> FALSE, out |-> out, p |-> p]
    ELSE IF bits[p + 2] + 2 * bits[p + 3] /= 1 THEN [ok |-> FALSE, out |-> out, p |-> p]
    ELSE InflateSymbols(bits, p + 3, out, bits[p + 1] = 1)

\* zlib.decompress(byte_data): [ok, data]; ok = FALSE is zlib.error
ZlibDecompress(byte_data) ==
    IF Len(byte_data) < 2 THEN [ok |-> FALSE, data |-> << >>]
    ELSE IF \/ byte_data[1] % 16 /= 8
            \/ byte_data[1] \div 16 > 7
            \/ (256 * byte_data[1] + byte_data[2]) % 31 /= 0
            \/ (byte_data[2] \div 32) % 2 = 1
    THEN [ok |-> FALSE, data |-> << >>]
    ELSE LET body == SubSeq(byte_data, 3, Len(byte_data))
             r == InflateBlock(DeflateBits(body), 0, << >>)
             used == (r.p + 7) \div 8
         IN  IF ~r.ok \/ used + 4 > Len(body) THEN [ok |-> FALSE, data |-> << >>]
             ELSE IF SubSeq(body, used + 1, used + 4) /= Adler32(r.out)
             THEN [ok |-> FALSE, data |-> << >>]
             ELSE [ok |-> TRUE, data |-> r.out]

(***************************************************************************)
(* Validators.  A diagnostic record is [line, column, char, reason]; the   *)
(* records of V1.2 carry a 0-based index instead of line and column.       *)
(***************************************************************************)
\* validate_message of V1.2
validate_message_V12(message) ==
    LET Rec(i) ==
            IF IsAlpha(message[i]) /\ IsUpper(message[i])
            THEN << [index |-> i - 1, char |-> message[i],
                     reason |-> "Uppercase character not allowed"] >>
            ELSE IF message[i] \notin DOMAIN BAUDOT_TABLE
            THEN << [index |-> i - 1, char |-> message[i], reason |-> "Invalid character"] >>
            ELSE << >>
    IN  Flatten([i \in 1..Len(message) |-> Rec(i)])

\* validate_message of V1.3 and 1.53
RECURSIVE ValidateFrom(_, _, _, _, _)
ValidateFrom(message, i, line, column, errors) ==
    IF i > Len(message) THEN errors
    ELSE IF message[i] = "\n" THEN ValidateFrom(message, i + 1, line + 1, 1, errors)
    ELSE IF IsUpper(message[i])
    THEN ValidateFrom(message, i + 1, line, column + 1,
             Append(errors, [line |-> line, column |-> column, char |-> message[i],
                             reason |-> "Uppercase character not allowed"]))
    ELSE IF message[i] \notin DOMAIN BAUDOT_TABLE
    THEN ValidateFrom(message, i + 1, line, column + 1,
             Append(errors, [line |-> line, column |-> column, char |-> message[i],
                             reason |-> "Invalid character"]))
    ELSE ValidateFrom(message, i + 1, line, column + 1, errors)

validate_message(message) == ValidateFrom(message, 1, 1, 1, << >>)

\* the scan of read_text_file (1.53): the list unicode_errors
RECURSIVE UnicodeErrorsFrom(_, _, _, _, _)
UnicodeErrorsFrom(text, i, line, column, errors) ==
    IF i > Len(text) THEN errors
    ELSE IF text[i] = "\n" THEN UnicodeErrorsFrom(text, i + 1, line + 1, 1, errors)
    ELSE IF Ord(text[i]) > 127 \/ IsControlCategory(text[i])
    THEN UnicodeErrorsFrom(text, i + 1, line, column + 1,
             Append(errors, [line |-> line, column |-> column, char |-> text[i],
                             reason |-> "Unicode / Invisible character"]))
    ELSE UnicodeErrorsFrom(text, i + 1, line, column + 1, errors)

unicode_errors(text) == UnicodeErrorsFrom(text, 1, 1, 1, << >>)

\* f.readlines(), each line without its line terminator
RECURSIVE LinesFrom(_, _, _, _)
LinesFrom(text, i, line, lines) ==
    IF i > Len(text)
    THEN IF line = << >> THEN lines ELSE Append(lines, line)
    ELSE IF text[i] = "\n" THEN LinesFrom(text, i + 1, << >>, Append(lines, line))
    ELSE LinesFrom(text, i + 1, Append(line, text[i]), lines)

ReadLines(text) == LinesFrom(text, 1, << >>, << >>)


\* mutant of Issue: the upper-case test comes first
IssueUppercaseFirst(char) ==
    IF IsUpper(char) THEN "Uppercase not allowed"
    ELSE IF Ord(char) > 127 THEN "Non-ASCII"
    ELSE IF IsControlCategory(char) THEN "Control / Invisible character"
    ELSE IF char \notin DOMAIN BAUDOT_TABLE THEN "Not supported in Baudot table"
    ELSE "None"

\* the issue read_text_file_with_diagnostics (1.54) finds in one character
Issue(char) ==
    IF Ord(char) > 127 THEN "Non-ASCII"
    ELSE IF IsControlCategory(char) THEN "Control / Invisible character"
    ELSE IF IsUpper(char) THEN "Uppercase not allowed"
    ELSE IF char \notin DOMAIN BAUDOT_TABLE THEN "Not supported in Baudot table"
    ELSE "None"

\* the issues read_text_file_with_diagnostics reports, in the order it prints them
diagnostics(text) ==
    LET lines == ReadLines(text)
        OfLine(n) ==
            Flatten([c \in 1..Len(lines[n]) |->
                IF Issue(lines[n][c]) /= "None"
                THEN << [line |-> n, column |-> c, char |-> lines[n][c],
                         reason |-> Issue(lines[n][c])] >>
                ELSE << >>])
    IN  Flatten([n \in 1..Len(lines) |-> OfLine(n)])

(***************************************************************************)
(* State.                                                                  *)
(*   version         the script that runs                                  *)
(*   abv             abv.txt, [exists, lines] (read by 1.53 at start-up)   *)
(*   WORD_SHORTCUTS  the abbreviation dictionary of that script            *)
(*   txt             the text the user types or keeps in the .txt file     *)
(*   file            the .bin artifact, [exists, data]                     *)
(*   msg             the message the last encode worked on                 *)
(*   out             what the last operation reported                      *)
(*   op              the last operation                                    *)
(*   bitstring       the bit string the last operation built or read       *)
(*   scan            the locals of the scan loop of the last decode        *)
(***************************************************************************)
VARIABLES version, abv, WORD_SHORTCUTS, txt, file, msg, out, op, bitstring, scan

vars == <<version, abv, WORD_SHORTCUTS, txt, file, msg, out, op, bitstring, scan>>

Versions == {"main", "V1.2", "V1.3", "1.53", "1.54"}

\* the scripts that have the abbreviation layer
ShortcutVersions == {"V1.2", "V1.3", "1.53"}

\* the scripts whose decode_from_file tries zlib.decompress first
ZlibVersions == {"1.53", "1.54"}

\* WORD_SHORTCUTS = {"dispose": "dpo"} of V1.2 and V1.3
BuiltinShortcuts == << << <<"d","i","s","p","o","s","e">>, <<"d","p","o">> >> >>

REVERSE_SHORTCUTS == ReverseDict(WORD_SHORTCUTS)

apply_shortcuts_encode(message) == SubstituteWords(WORD_SHORTCUTS, message)

apply_shortcuts_decode(message) == SubstituteWords(REVERSE_SHORTCUTS, message)

NoFile == [exists |-> FALSE, data |-> << >>]

Report(kind, text, errors, validated) ==
    [kind |-> kind, text |-> text, errors |-> errors, validated |-> validated]

\* the result of an encode handler: its report, the message it worked on and
\* the bytes it wrote, if it wrote
Wrote(message, data, validated) ==
    [out |-> Report("saved", << >>, << >>, validated), msg |-> message,
     write |-> TRUE, data |-> data]

Stopped(kind, message, errors, validated) ==
    [out |-> Report(kind, << >>, errors, validated), msg |-> message,
     write |-> FALSE, data |-> << >>]

(***************************************************************************)
(* handle_compression: the bytes that reach the file, given the answers.   *)
(***************************************************************************)
handle_compression_153(byte_data, ans) ==
    IF ~ans.use_compression THEN byte_data
    ELSE LET compressed_data == ZlibCompress(byte_data)
         IN  IF ans.compare /\ Len(compressed_data) > Len(byte_data)
             THEN IF ans.choice THEN compressed_data ELSE byte_data
             ELSE compressed_data

handle_compression_154(byte_data, ans) ==
    IF ~ans.use_compression THEN byte_data
    ELSE IF ans.compare THEN ZlibCompress(byte_data) ELSE byte_data

(***************************************************************************)
(* The encode handlers, as functions of the text and the answers.          *)
(***************************************************************************)
\* main.py encode_to_file
EncodeMain(message) ==
    IF ~Encodable(message) THEN Stopped("ValueError", message, << >>, FALSE)
    ELSE Wrote(message, build_encoded_bytes(message), FALSE)

\* V1.2 encode_to_file; with errors it asks for the text again
EncodeV12(typed) ==
    LET message == apply_shortcuts_encode(typed)
        errors == validate_message_V12(message)
    IN  IF errors /= << >> THEN Stopped("errors", message, errors, TRUE)
        ELSE Wrote(message, build_encoded_bytes(message), TRUE)

\* V1.3 encode_to_file_from_text; read_text_file opens the file as ASCII
EncodeV13(text, ans, exists) ==
    IF \E i \in 1..Len(text) : Ord(text[i]) > 127
    THEN Stopped("UnicodeDecodeError", << >>, << >>, FALSE)
    ELSE LET message == apply_shortcuts_encode(RStripNewlines(text))
             errors == validate_message(message)
         IN  IF errors /= << >> THEN Stopped("errors", message, errors, TRUE)
             ELSE IF exists /\ ~ans.overwrite THEN Stopped("cancelled", message, << >>, TRUE)
             ELSE Wrote(message, build_encoded_bytes(message), TRUE)

\* 1.53 encode_to_file_from_text
Encode153(text, ans) ==
    IF unicode_errors(text) /= << >>
    THEN Stopped("unicode_errors", << >>, unicode_errors(text), FALSE)
    ELSE LET message == apply_shortcuts_encode(RStripNewlines(text))
             errors == validate_message(message)
         IN  IF errors /= << >> THEN Stopped("errors", message, errors, TRUE)
             ELSE Wrote(message, handle_compression_153(build_encoded_bytes(message), ans), TRUE)

\* 1.54 main, choice 1: a typed message is not validated, a file is checked
\* by read_text_file_with_diagnostics
Encode154(text, ans) ==
    IF ans.mode = "file" /\ diagnostics(text) /= << >>
    THEN Stopped("errors", << >>, diagnostics(text), TRUE)
    ELSE LET message == IF ans.mode = "file" THEN RStripNewlines(text) ELSE Strip(text)
         IN  IF ~Encodable(message)
             THEN Stopped("KeyError", message, << >>, ans.mode = "file")
             ELSE Wrote(message, handle_compression_154(build_encoded_bytes(message), ans),
                        ans.mode = "file")

(***************************************************************************)
(* decode_from_file, from the bytes read to the report.                    *)
(***************************************************************************)
\* try: byte_data = zlib.decompress(byte_data)  except: pass
TryDecompress(byte_data) ==
    LET r == ZlibDecompress(byte_data)
    IN  IF r.ok THEN r.data ELSE byte_data

\* the bytes the scan reads
ScannedBytes(v, byte_data) == IF v \in ZlibVersions THEN TryDecompress(byte_data) ELSE byte_data


\* mutant of DecodedMessage: the abbreviations are not reversed
DecodedMessageNoReversal(v, decoded) == DropLastN(decoded, Len(STOP_WORD))

\* mutant of DecodedMessage: the stop word is not cut off
DecodedMessageUntrimmed(v, decoded) ==
    IF v \in ShortcutVersions THEN apply_shortcuts_decode(decoded) ELSE decoded

\* the text printed when the stop word is matched
DecodedMessage(v, decoded) ==
    IF v \in ShortcutVersions
    THEN apply_shortcuts_decode(DropLastN(decoded, Len(STOP_WORD)))
    ELSE DropLastN(decoded, Len(STOP_WORD))


\* mutant of DecodeReport: an exhausted scan prints what it accumulated
DecodeReportPartial(v, byte_data) ==
    LET st == Scan(bytes_to_bits(ScannedBytes(v, byte_data)))
    IN  IF st.pc = "TERMINATED"
        THEN Report("decoded", DecodedMessage(v, st.decoded), << >>, FALSE)
        ELSE Report("notfound", st.decoded, << >>, FALSE)

DecodeReport(v, byte_data) ==
    LET st == Scan(bytes_to_bits(ScannedBytes(v, byte_data)))
    IN  IF st.pc = "TERMINATED"
        THEN Report("decoded", DecodedMessage(v, st.decoded), << >>, FALSE)
        ELSE Report("notfound", << >>, << >>, FALSE)

(***************************************************************************)
(* Inputs.                                                                 *)
(***************************************************************************)
SeqsUpTo(S, n) == UNION {[1..k -> S] : k \in 0..n}

\* texts for the codec: up to MaxPieces pieces, and two fixed messages
Pieces == {<<" ">>, STOP_WORD, <<"d","i","s","p","o","s","e">>, <<"d","p","o">>, <<"s">>, <<"t","o","p">>}

HelloStop == <<"h","e","l","l","o"," ","s","t","o","p">>

\* a message whose packed bytes are a well-formed zlib stream
ZlibLookalike ==
    <<"k","1","c"," ","p"," ","q","v","a"," ","g","r","i","1"," ","t","e"," ","p","t","s","l","o">>

CodecTexts == {Flatten(ps) : ps \in SeqsUpTo(Pieces, MaxPieces)} \cup {HelloStop, ZlibLookalike}

\* texts for the validators: every text of up to MaxTextLen characters
TextChars == {"a", "A", " ", "!", "\n", "\t", "U+00E9", "U+00C9"}

ValidationTexts == SeqsUpTo(TextChars, MaxTextLen)

\* artifacts that no encoder wrote
ByteSamples == {0, 44, 49, 96, 255}

Artifacts == SeqsUpTo(ByteSamples, MaxBytes)

\* abv.txt: missing, or one of two files
AbvMissing == [exists |-> FALSE, lines |-> << >>]

AbvFiles ==
    {[exists |-> TRUE,
      lines |-> << <<"#"," ","a","b","b","r","e","v","i","a","t","i","o","n","s">>,
                   <<"d","i","s","p","o","s","e","=","d","p","o">>,
                   <<" ","s"," ","="," ","t","o","p"," ">>,
                   << >>,
                   <<"t","o","p","=","d","p","o">>,
                   <<"d","i","s","p","o","s","e","=","s">>,
                   <<"H","e","l","l","o","=","h">>,
                   <<"d","p","o">>,
                   <<"a","=","b","=","c">>,
                   <<"a","=","!">>,
                   <<"a","a","=","a">> >>],
     [exists |-> TRUE,
      lines |-> << <<"d","i","s","p","o","s","e","=","s","t","o","p">> >>]}

\* lines of abv.txt, one of each kind load_shortcuts tells apart
AbvLines ==
    {<<"d","i","s","p","o","s","e","=","d","p","o">>,
     <<" ","s"," ","="," ","t","o","p"," ">>,
     <<"t","o","p","=","d","p","o">>,
     <<"d","i","s","p","o","s","e","=","s">>,
     <<"H","e","l","l","o","=","h">>,
     <<"d","p","o">>,
     <<"a","=","b","=","c">>,
     <<"a","=","!">>}

\* abv.txt files of up to MaxLines of these lines
LoaderFiles == {[exists |-> TRUE, lines |-> ls] : ls \in SeqsUpTo(AbvLines, MaxLines)}

\* bit strings for the scan: up to MaxPieces of these runs of 5-bit chunks,
\* two of them the codes that the table leaves unassigned
ScanPieces ==
    {CodesOf(STOP_WORD), CodesOf(<<"s", "t", "o">>), CodesOf(<<"p">>),
     <<0,0,0,0,0>>, <<0,1,0,0,0>>}

ScanStreams == {bits_to_bytes(Flatten(ps)) : ps \in SeqsUpTo(ScanPieces, MaxPieces)}

\* messages whose packed bytes are followed by other bytes in the file
ScanMessages == {Flatten(ps) : ps \in SeqsUpTo(Pieces, 1)} \cup {<<"1", "2", "3">>}

ExtraBytes == SeqsUpTo(ByteSamples, MaxBytes - 1)

\* the answers to the prompts of an encode
Answers(v, exists) ==
    {a \in [mode : {"typed", "file"}, overwrite : BOOLEAN, use_compression : BOOLEAN,
            compare : BOOLEAN, choice : BOOLEAN] :
        /\ (v = "1.54") \/ (a.mode = (IF v \in {"main", "V1.2"} THEN "typed" ELSE "file"))
        /\ (v = "V1.3" /\ exists) \/ a.overwrite
        /\ (v \in ZlibVersions) \/ ~a.use_compression
        /\ (v \in ZlibVersions /\ a.use_compression) \/ ~a.compare
        /\ (v = "1.53" /\ a.use_compression /\ a.compare) \/ ~a.choice}

\* input() returns one line
Typable(text) == "\n" \notin Range(text)

(***************************************************************************)
(* Initial states: a script, its dictionary, and either a text and no      *)
(* artifact or no text and an artifact found on disk.                      *)
(***************************************************************************)
InitWith(texts, artifacts) ==
    /\ version \in Versions
    /\ abv \in IF version = "1.53" THEN AbvFiles \cup {AbvMissing} ELSE {AbvMissing}
    /\ WORD_SHORTCUTS = IF version = "1.53" THEN load_shortcuts(abv)
                        ELSE IF version \in ShortcutVersions THEN BuiltinShortcuts
                        ELSE << >>
    /\ \/ /\ txt \in texts
          /\ file = NoFile
       \/ /\ txt = << >>
          /\ file \in {[exists |-> TRUE, data |-> b] : b \in artifacts}
    /\ msg = << >>
    /\ out = Report("none", << >>, << >>, FALSE)
    /\ op = "start"
    /\ bitstring = << >>
    /\ scan = ScanStart

Init == InitWith(CodecTexts, Artifacts)

InitValidate == InitWith(ValidationTexts, {})

\* 1.53 with every abv.txt of LoaderFiles, the others as they are
InitLoad ==
    /\ version \in Versions
    /\ abv \in IF version = "1.53" THEN LoaderFiles \cup {AbvMissing} ELSE {AbvMissing}
    /\ WORD_SHORTCUTS = IF version = "1.53" THEN load_shortcuts(abv)
                        ELSE IF version \in ShortcutVersions THEN BuiltinShortcuts
                        ELSE << >>
    /\ txt = <<"s">>
    /\ file = NoFile
    /\ msg = << >>
    /\ out = Report("none", << >>, << >>, FALSE)
    /\ op = "start"
    /\ bitstring = << >>
    /\ scan = ScanStart

\* a bit string for the packer and no text, or a text to encode
InitPack ==
    /\ version \in Versions
    /\ abv = AbvMissing
    /\ WORD_SHORTCUTS = IF version = "1.53" THEN load_shortcuts(abv)
                        ELSE IF version \in ShortcutVersions THEN BuiltinShortcuts
                        ELSE << >>
    /\ \/ /\ txt = << >>
          /\ bitstring \in SeqsUpTo({0, 1}, MaxBits)
       \/ /\ txt \in ScanMessages
          /\ bitstring = << >>
    /\ file = NoFile
    /\ msg = << >>
    /\ out = Report("none", << >>, << >>, FALSE)
    /\ op = "start"
    /\ scan = ScanStart

\* a file to decode: a stream of chunks, or the packed bytes of msg followed
\* by extra bytes
InitScan ==
    /\ version \in Versions
    /\ abv = AbvMissing
    /\ WORD_SHORTCUTS = IF version = "1.53" THEN load_shortcuts(abv)
                        ELSE IF version \in ShortcutVersions THEN BuiltinShortcuts
                        ELSE << >>
    /\ txt = << >>
    /\ \/ /\ msg = << >>
          /\ file \in {[exists |-> TRUE, data |-> b] : b \in ScanStreams}
       \/ /\ msg \in ScanMessages
          /\ file \in {[exists |-> TRUE, data |-> build_encoded_bytes(msg) \o e] :
                            e \in ExtraBytes}
    /\ out = Report("none", << >>, << >>, FALSE)
    /\ op = "start"
    /\ bitstring = << >>
    /\ scan = ScanStart

(***************************************************************************)
(* Actions: one per handler.                                               *)
(***************************************************************************)
Finish(r) ==
    /\ out' = r.out
    /\ msg' = r.msg
    /\ file' = IF r.write THEN [exists |-> TRUE, data |-> r.data] ELSE file
    /\ op' = "encode"
    /\ bitstring' = IF r.write THEN CodesOf(r.msg) \o CodesOf(STOP_WORD) ELSE << >>
    /\ scan' = ScanStart
    /\ UNCHANGED <<version, abv, WORD_SHORTCUTS, txt>>

encode_to_file_main ==
    /\ version = "main"
    /\ Typable(txt)
    /\ Finish(EncodeMain(txt))

encode_to_file_V12 ==
    /\ version = "V1.2"
    /\ Typable(txt)
    /\ Finish(EncodeV12(txt))

encode_to_file_from_text_V13 ==
    /\ version = "V1.3"
    /\ \E ans \in Answers(version, file.exists) : Finish(EncodeV13(txt, ans, file.exists))

encode_to_file_from_text_153 ==
    /\ version = "1.53"
    /\ \E ans \in Answers(version, file.exists) : Finish(Encode153(txt, ans))

encode_154 ==
    /\ version = "1.54"
    /\ \E ans \in Answers(version, file.exists) :
          /\ ans.mode = "typed" => Typable(txt)
          /\ Finish(Encode154(txt, ans))

\* main.py opens the file without looking; the others report a missing file
decode_from_file ==
    /\ out' = IF ~file.exists
              THEN Report(IF version = "main" THEN "FileNotFoundError" ELSE "filenotfound",
                          << >>, << >>, FALSE)
              ELSE DecodeReport(version, file.data)
    /\ op' = "decode"
    /\ bitstring' = IF file.exists THEN bytes_to_bits(ScannedBytes(version, file.data))
                    ELSE << >>
    /\ scan' = IF file.exists THEN Scan(bitstring') ELSE ScanStart
    /\ UNCHANGED <<version, abv, WORD_SHORTCUTS, txt, file, msg>>

(***************************************************************************)
(* decode_from_file one step at a time: the file is read, the loop runs    *)
(* one iteration per step, and the result is printed.                      *)
(***************************************************************************)
\* what decode_from_file prints when the loop has ended in st
ReportOfScan(v, st) ==
    IF st.pc = "TERMINATED"
    THEN Report("decoded", DecodedMessage(v, st.decoded), << >>, FALSE)
    ELSE Report("notfound", << >>, << >>, FALSE)

decode_read_file ==
    /\ op = "start"
    /\ file.exists
    /\ bitstring' = bytes_to_bits(ScannedBytes(version, file.data))
    /\ scan' = ScanStart
    /\ op' = "scanning"
    /\ UNCHANGED <<version, abv, WORD_SHORTCUTS, txt, file, msg, out>>

decode_scan_chunk ==
    /\ op = "scanning"
    /\ scan.pc = "SCANNING"
    /\ scan' = ScanStep(bitstring, scan)
    /\ UNCHANGED <<version, abv, WORD_SHORTCUTS, txt, file, msg, out, op, bitstring>>

decode_print ==
    /\ op = "scanning"
    /\ scan.pc /= "SCANNING"
    /\ out' = ReportOfScan(version, scan)
    /\ op' = "decode"
    /\ UNCHANGED <<version, abv, WORD_SHORTCUTS, txt, file, msg, bitstring, scan>>

NextScan ==
    \/ decode_read_file
    \/ decode_scan_chunk
    \/ decode_print

(***************************************************************************)
(* The packer and the unpacker on their own.                               *)
(***************************************************************************)
bits_to_bytes_call ==
    /\ op = "start"
    /\ file' = [exists |-> TRUE, data |-> bits_to_bytes(bitstring)]
    /\ op' = "bits_to_bytes"
    /\ UNCHANGED <<version, abv, WORD_SHORTCUTS, txt, msg, out, bitstring, scan>>

bytes_to_bits_call ==
    /\ op = "bits_to_bytes"
    /\ bitstring' = bytes_to_bits(file.data)
    /\ op' = "bytes_to_bits"
    /\ UNCHANGED <<version, abv, WORD_SHORTCUTS, txt, file, msg, out, scan>>

Next ==
    \/ encode_to_file_main
    \/ encode_to_file_V12
    \/ encode_to_file_from_text_V13
    \/ encode_to_file_from_text_153
    \/ encode_154
    \/ decode_from_file

Spec == Init /\ [][Next]_vars

SpecValidate == InitValidate /\ [][Next]_vars

SpecLoad == InitLoad /\ [][Next]_vars

NextPack ==
    \/ bits_to_bytes_call
    \/ bytes_to_bits_call
    \/ Next

SpecPack == InitPack /\ [][NextPack]_vars

SpecScan == InitScan /\ [][NextScan]_vars

\* the statements of decode_from_file run one after the other without a stop
SpecScanFair == SpecScan /\ WF_vars(NextScan)

(***************************************************************************)
(* Vocabulary of the properties.                                           *)
(***************************************************************************)
\* the characters of the known 5-bit chunks of a byte string, in order
ChunkChars(byte_data) ==
    LET bits == bytes_to_bits(byte_data)
        chunk(k) == SubSeq(bits, 5 * (k - 1) + 1, 5 * k)
    IN  Flatten([k \in 1..(Len(bits) \div 5) |->
            IF chunk(k) \in DOMAIN REVERSE_TABLE THEN <<REVERSE_TABLE[chunk(k)]>> ELSE << >>])

\* the stop word occurs in a text
HasStop(text) ==
    \E k \in 1..(Len(text) - Len(STOP_WORD) + 1) :
        SubSeq(text, k, k + Len(STOP_WORD) - 1) = STOP_WORD

\* an encode wrote the artifact from txt, uncompressed, and a decode read it
DecodedOwnOutput ==
    /\ op = "decode"
    /\ file.exists
    /\ Encodable(msg)
    /\ file.data = build_encoded_bytes(msg)

\* a text that the abbreviation layer and the stop word leave alone: words
\* separated by single spaces, no word that is a shortcut without being a
\* full word, and no stop word in what is put on the wire
SurvivesLayers(text) ==
    /\ text = Join(Split(text))
    /\ \A i \in 1..Len(Split(text)) :
          Split(text)[i] \in DictValues(WORD_SHORTCUTS) => Split(text)[i] \in DictKeys(WORD_SHORTCUTS)
    /\ ~HasStop(apply_shortcuts_encode(text))

Hello == <<"h", "e", "l", "l", "o">>

Dispose == <<"d", "i", "s", "p", "o", "s", "e">>

C2_TerminatorSafety ==
    (DecodedOwnOutput /\ version \notin ZlibVersions) => out.kind = "decoded"

\* main.py decoded the artifact it wrote for a message of several characters
C2_Witness ==
    /\ DecodedOwnOutput
    /\ version = "main"
    /\ msg = txt
    /\ Len(txt) > Len(STOP_WORD)
    /\ out.kind = "decoded"

(***************************************************************************)
(* C3 (as stated): in every script, encoding "hello stop" and decoding the *)
(* result returns exactly "hello".                                         *)
(***************************************************************************)
C3_HelloInEveryScript ==
    (op = "decode" /\ txt = HelloStop /\ file.exists)
        => (out.kind = "decoded" /\ out.text = Hello)

(***************************************************************************)
(* C3 (amended): decoding stops at the first point where the last four     *)
(* decoded characters are "stop" and returns the text before it: for the   *)
(* input "hello stop" the scripts that reverse abbreviations after the     *)
(* scan (V1.2, V1.3, 1.53) return "hello", and main.py and 1.54 return     *)
(* "hello " with the space that preceded the stop word.                    *)
(***************************************************************************)
C3_HelloStop ==
    (op = "decode" /\ txt = HelloStop /\ file.exists)
        => /\ out.kind = "decoded"
           /\ out.text = IF version \in ShortcutVersions THEN Hello ELSE Hello \o <<" ">>

\* 1.53 decoded a compressed artifact of "hello stop"
C3_Witness ==
    /\ op = "decode"
    /\ txt = HelloStop
    /\ version = "1.53"
    /\ file.exists
    /\ file.data /= build_encoded_bytes(msg)
    /\ out.text = Hello

(***************************************************************************)
(* C4 (as stated): for any byte sequence whose own 5-bit chunk stream      *)
(* never spells the stop word, decode reports that the stop word was not   *)
(* found and prints no text.                                               *)
(***************************************************************************)
C4_NoStopInFileBytes ==
    (op = "decode" /\ file.exists /\ ~HasStop(ChunkChars(file.data)))
        => (out.kind = "notfound" /\ out.text = << >>)

(***************************************************************************)
(* C4 (amended): for any byte sequence, the 0-byte one included, decode    *)
(* reports that the stop word was not found and prints none of the         *)
(* characters it accumulated whenever the chunk stream of the bytes it     *)
(* scans never spells the stop word; in 1.53 and 1.54 the bytes it scans   *)
(* are the decompressed bytes when zlib.decompress accepts the file.       *)
(***************************************************************************)
C4_AllOrNothing ==
    (op = "decode" /\ file.exists /\ ~HasStop(ChunkChars(ScannedBytes(version, file.data))))
        => (out.kind = "notfound" /\ out.text = << >> /\ out.errors = << >>)

\* the scan accumulated characters, found no stop word and printed nothing
C4_Witness ==
    /\ op = "decode"
    /\ file.exists
    /\ ChunkChars(ScannedBytes(version, file.data)) /= << >>
    /\ ~HasStop(ChunkChars(ScannedBytes(version, file.data)))
    /\ out.kind = "notfound"
    /\ out.text = << >>

(***************************************************************************)
(* C5: for every message, decoding its raw packed bytes and decoding the   *)
(* compressed form of those bytes give the same plain text.                *)
(***************************************************************************)
C5_CompressionFallback ==
    (DecodedOwnOutput /\ version \in ZlibVersions)
        => out = DecodeReport(version, ZlibCompress(file.data))

(***************************************************************************)
(* C6: with the dictionary the script holds (distinct full words, distinct *)
(* shortcuts), apply_shortcuts_decode(apply_shortcuts_encode(w)) = w for   *)
(* every full word w of the dictionary, and an encode of the text w works  *)
(* on the shortcut of w.                                                   *)
(***************************************************************************)
C6_AbbreviationSymmetry ==
    /\ \A w \in DictKeys(WORD_SHORTCUTS) :
          apply_shortcuts_decode(apply_shortcuts_encode(w)) = w
    /\ (version \in ShortcutVersions /\ txt \in DictKeys(WORD_SHORTCUTS) /\ file.exists)
          => (msg = DictGet(WORD_SHORTCUTS, txt, txt) /\ apply_shortcuts_decode(msg) = txt)

\* 1.53 encoded the full word "s" of abv.txt as its shortcut "top"
C6_Witness ==
    /\ version = "1.53"
    /\ op = "encode"
    /\ txt = <<"s">>
    /\ msg = <<"t", "o", "p">>
    /\ apply_shortcuts_decode(msg) = txt

(***************************************************************************)
(* Positions and classes of the characters of a text.                      *)
(***************************************************************************)
\* the 1-based line of text[i]
LineOf(text, i) == 1 + Cardinality({j \in 1..(i - 1) : text[j] = "\n"})

\* the 1-based column of text[i]
ColumnOf(text, i) ==
    LET breaks == {j \in 1..(i - 1) : text[j] = "\n"}
    IN  i - (IF breaks = {} THEN 0 ELSE CHOOSE j \in breaks : \A k \in breaks : k <= j)

\* a character that cannot be encoded
Offending(c) ==
    /\ c /= "\n"
    /\ IsUpper(c) \/ Ord(c) > 127 \/ IsControlCategory(c) \/ c \notin DOMAIN BAUDOT_TABLE

\* the indexes of the records that point at text[i]
RecordsAt(errors, text, i) ==
    {k \in 1..Len(errors) :
        errors[k].line = LineOf(text, i) /\ errors[k].column = ColumnOf(text, i)}

(***************************************************************************)
(* C7: for every input text with an uppercase letter, the validation of    *)
(* the encode path returns a non-empty list with an uppercase record for   *)
(* each uppercase occurrence at its 1-based line and column in the input   *)
(* text (stated for the texts that read_text_file accepts).                *)
(***************************************************************************)
C7_UppercaseAtInputPosition ==
    (/\ op = "encode"
     /\ version \in {"V1.3", "1.53"}
     /\ unicode_errors(txt) = << >>
     /\ \E i \in 1..Len(txt) : IsUpper(txt[i]))
        => /\ out.errors /= << >>
           /\ \A i \in 1..Len(txt) :
                 IsUpper(txt[i]) =>
                    \E k \in 1..Len(out.errors) :
                        out.errors[k] = [line |-> LineOf(txt, i), column |-> ColumnOf(txt, i),
                                         char |-> txt[i],
                                         reason |-> "Uppercase character not allowed"]

(***************************************************************************)
(* C8: whenever validation reports no diagnostic, every character of the   *)
(* message handed to the encoder is a key of BAUDOT_TABLE and the encoder  *)
(* does not fail on an unknown character.                                  *)
(***************************************************************************)
C8_EmptyResultMeansEncodable ==
    (op = "encode" /\ out.validated /\ out.errors = << >>)
        => (Encodable(msg) /\ out.kind \notin {"KeyError", "ValueError"})

(***************************************************************************)
(* C9: validating a text yields exactly one record per offending character *)
(* of any kind, all in one batch (stated for the encode path of 1.53).     *)
(***************************************************************************)
C9_OneRecordPerOffender ==
    (op = "encode" /\ version = "1.53")
        => Len(out.errors) = Cardinality({i \in 1..Len(txt) : Offending(txt[i])})

ExpectedIssue(c) ==
    IF Ord(c) > 127 THEN "Non-ASCII"
    ELSE IF IsControlCategory(c) THEN "Control / Invisible character"
    ELSE IF IsUpper(c) THEN "Uppercase not allowed"
    ELSE IF c \notin DOMAIN BAUDOT_TABLE THEN "Not supported in Baudot table"
    ELSE "None"

CountEq(line) == Cardinality({i \in 1..Len(line) : line[i] = "="})

\* a blank line or a comment, which the loader passes over without a word
IsSkipped(rawline) == Strip(rawline) = << >> \/ Strip(rawline)[1] = "#"

\* the two sides of a line with exactly one "=", without their spaces
SidesOf(rawline) ==
    LET line == Strip(rawline)
        eq == CHOOSE i \in 1..Len(line) : line[i] = "="
    IN  << Remove(SubSeq(line, 1, eq - 1), " "), Remove(SubSeq(line, eq + 1, Len(line)), " ") >>

\* a line of one of the rejected kinds, given the entries accepted so far
Rejected(shortcuts, rawline) ==
    /\ ~IsSkipped(rawline)
    /\ \/ CountEq(rawline) /= 1
       \/ \E n \in 1..2 :
             \/ ~IsLowerStr(SidesOf(rawline)[n])
             \/ \E i \in 1..Len(SidesOf(rawline)[n]) :
                   SidesOf(rawline)[n][i] \notin DOMAIN BAUDOT_TABLE
       \/ \E i \in 1..Len(shortcuts) : shortcuts[i][1] = SidesOf(rawline)[1]
       \/ \E i \in 1..Len(shortcuts) : shortcuts[i][2] = SidesOf(rawline)[2]

\* keys pairwise distinct, shortcuts pairwise distinct, all of table characters
WellFormedDict(d) ==
    /\ \A i, j \in 1..Len(d) : (d[i][1] = d[j][1] \/ d[i][2] = d[j][2]) => i = j
    /\ \A i \in 1..Len(d) : \A n \in 1..2 : \A k \in 1..Len(d[i][n]) :
          d[i][n][k] \in DOMAIN BAUDOT_TABLE

\* the dictionary after the first k lines of abv.txt
LoadedAfter(k) == load_shortcuts([abv EXCEPT !.lines = SubSeq(@, 1, k)])

(***************************************************************************)
(* C11: after load_shortcuts has processed any sequence of lines, the      *)
(* dictionary has pairwise distinct shortcuts and only symbol-table        *)
(* characters on both sides; every rejected line (no "=", more than one    *)
(* "=", a side that is not lowercase, an illegal character, a duplicate    *)
(* key, a duplicate shortcut) leaves the entries accepted so far           *)
(* unchanged, and the lines after it are still processed: a line that is   *)
(* none of these is appended.                                              *)
(***************************************************************************)
C11_LoaderInvariant ==
    (version = "1.53" /\ abv.exists)
        => /\ WORD_SHORTCUTS = LoadedAfter(Len(abv.lines))
           /\ WellFormedDict(WORD_SHORTCUTS)
           /\ \A k \in 1..Len(abv.lines) :
                 /\ WellFormedDict(LoadedAfter(k))
                 /\ (IsSkipped(abv.lines[k]) \/ Rejected(LoadedAfter(k - 1), abv.lines[k]))
                       => LoadedAfter(k) = LoadedAfter(k - 1)
                 /\ ~(IsSkipped(abv.lines[k]) \/ Rejected(LoadedAfter(k - 1), abv.lines[k]))
                       => LoadedAfter(k) = Append(LoadedAfter(k - 1), SidesOf(abv.lines[k]))

\* a line with a duplicate shortcut was rejected between two accepted lines
C11_Witness ==
    /\ version = "1.53"
    /\ abv.exists
    /\ Len(abv.lines) = 3
    /\ Rejected(LoadedAfter(1), abv.lines[2])
    /\ abv.lines[2] = <<"t","o","p","=","d","p","o">>
    /\ WORD_SHORTCUTS = << << <<"d","i","s","p","o","s","e">>, <<"d","p","o">> >>,
                           << <<"s">>, <<"t","o","p">> >> >>

(***************************************************************************)
(* Vocabulary for the symbol table.                                        *)
(***************************************************************************)
\* every code is a string of five characters 0/1 and no two keys share one
DistinctFiveBitCodes ==
    /\ \A c \in DOMAIN BAUDOT_TABLE :
          /\ Len(BAUDOT_TABLE[c]) = 5
          /\ \A i \in 1..5 : BAUDOT_TABLE[c][i] \in {0, 1}
    /\ \A c, d \in DOMAIN BAUDOT_TABLE : BAUDOT_TABLE[c] = BAUDOT_TABLE[d] => c = d

\* REVERSE_TABLE is defined on the codes of the table and takes each back
ExactInverse ==
    /\ DOMAIN REVERSE_TABLE = {BAUDOT_TABLE[c] : c \in DOMAIN BAUDOT_TABLE}
    /\ \A c \in DOMAIN BAUDOT_TABLE : REVERSE_TABLE[BAUDOT_TABLE[c]] = c

(***************************************************************************)
(* C12 (as stated): in each of the scripts the symbol table is a bijection *)
(* over exactly 27 entries with distinct 5-bit codes, and REVERSE_TABLE is *)
(* its inverse.                                                            *)
(***************************************************************************)
C12_TwentySevenEntries ==
    version \in Versions
        => /\ DistinctFiveBitCodes
           /\ ExactInverse
           /\ Cardinality(DOMAIN BAUDOT_TABLE) = 27

(***************************************************************************)
(* C12 (amended): the symbol table is a bijection over exactly 30 entries  *)
(* (a-z, space, 1, 2, 3): BAUDOT_TABLE maps each of its characters to a    *)
(* distinct 5-character string of 0/1, no two characters share a code,     *)
(* REVERSE_TABLE is its exact inverse, so that main.py reads back every    *)
(* character of a message without "stop" that it wrote.                    *)
(***************************************************************************)
C12_TableBijection ==
    /\ DistinctFiveBitCodes
    /\ ExactInverse
    /\ Cardinality(DOMAIN BAUDOT_TABLE) = 30
    /\ Cardinality(DOMAIN REVERSE_TABLE) = 30
    /\ (DecodedOwnOutput /\ version = "main" /\ ~HasStop(msg)) => out.text = msg

\* main.py read back a message made of the digits, three of the 30 entries
C12_Witness ==
    /\ DecodedOwnOutput
    /\ version = "main"
    /\ msg = <<"1", "2", "3">>
    /\ \A i \in 1..Len(msg) : REVERSE_TABLE[BAUDOT_TABLE[msg[i]]] = msg[i]
    /\ out.text = msg

(***************************************************************************)
(* Vocabulary for the scan.                                                *)
(***************************************************************************)
\* the k-th 5-bit chunk of a bit string
ChunkAt(bits, k) == SubSeq(bits, 5 * (k - 1) + 1, 5 * k)

\* the complete chunks of a bit string that are assigned codes, in order
AssignedChunks(bits) ==
    SelectSeq([k \in 1..(Len(bits) \div 5) |-> ChunkAt(bits, k)],
              LAMBDA c : c \in DOMAIN REVERSE_TABLE)

\* the last min(4, k) of the k characters of a text
LastFour(text) ==
    LET k == Len(text)
        n == IF k < 4 THEN k ELSE 4
    IN  [j \in 1..n |-> text[k - n + j]]

\* the number of chunks the scan has read
ChunksRead == scan.i \div 5

(***************************************************************************)
(* C13: in every state of the decode scan the sliding window holds at most *)
(* 4 characters and equals the last min(4, k) of the k characters decoded  *)
(* so far; the decoded characters are those of the assigned chunks read so *)
(* far, so a chunk that is not an assigned code changes neither the output *)
(* nor the window, and the scan ends as it does on the bit string without  *)
(* the unassigned chunks.                                                  *)
(***************************************************************************)
C13_WindowInvariant ==
    (op \in {"scanning", "decode"})
        => /\ Len(scan.stop_buffer) <= 4
           /\ scan.stop_buffer = LastFour(scan.decoded)
           /\ scan.decoded =
                 [j \in 1..Len(AssignedChunks(SubSeq(bitstring, 1, scan.i))) |->
                     REVERSE_TABLE[AssignedChunks(SubSeq(bitstring, 1, scan.i))[j]]]
           /\ scan.pc /= "SCANNING"
                 => LET without == Scan(Flatten(AssignedChunks(bitstring)))
                    IN  /\ without.pc = scan.pc
                        /\ without.decoded = scan.decoded
                        /\ without.stop_buffer = scan.stop_buffer

\* the scan skipped an unassigned chunk and the window has slid
C13_Witness ==
    /\ op = "scanning"
    /\ scan.pc = "SCANNING"
    /\ Len(scan.decoded) > 4
    /\ ChunksRead > Len(scan.decoded)
    /\ scan.stop_buffer = LastFour(scan.decoded)

(***************************************************************************)
(* Vocabulary for a file that starts with the packed bytes of msg.         *)
(***************************************************************************)
IsPrefix(s, t) == Len(s) <= Len(t) /\ SubSeq(t, 1, Len(s)) = s

\* the scan reads the bytes of the file and of the packed message as they
\* are: a script that tries zlib.decompress first has both rejected
ScansFileBytes ==
    version \in ZlibVersions
        => /\ ~ZlibDecompress(file.data).ok
           /\ ~ZlibDecompress(build_encoded_bytes(msg)).ok

(***************************************************************************)
(* C14: once the terminator has been matched no later bit influences the   *)
(* result: decoding the packed bytes of a message followed by any extra    *)
(* bytes gives what decoding the packed bytes alone gives, the scan reads  *)
(* no bit after the terminator, and so neither the zero padding bits of    *)
(* bits_to_bytes nor the extra bytes contribute a character.               *)
(***************************************************************************)
C14_TrailingBytesIgnored ==
    (/\ op = "decode"
     /\ Encodable(msg)
     /\ IsPrefix(build_encoded_bytes(msg), file.data)
     /\ ScansFileBytes)
        => /\ out = DecodeReport(version, build_encoded_bytes(msg))
           /\ out.kind = "decoded"
           /\ scan.pc = "TERMINATED"
           /\ scan.i <= 5 * (Len(msg) + Len(STOP_WORD))
           /\ IsPrefix(scan.decoded, msg \o STOP_WORD)

\* main.py decoded "dpo" from its packed bytes followed by two more bytes
C14_Witness ==
    /\ op = "decode"
    /\ version = "main"
    /\ msg = <<"d", "p", "o">>
    /\ Len(file.data) = Len(build_encoded_bytes(msg)) + 2
    /\ IsPrefix(build_encoded_bytes(msg), file.data)
    /\ out.kind = "decoded"
    /\ out.text = msg

(***************************************************************************)
(* Vocabulary for the packer.                                              *)
(***************************************************************************)
\* ceil(a / b)
CeilDiv(a, b) == (a + b - 1) \div b

\* the number of zero bits that fill the last byte: (-n) mod 8
PadLength(n) == (8 - (n % 8)) % 8

\* the value of eight bits, the first one the most significant
MsbFirst(b) ==
    128 * b[1] + 64 * b[2] + 32 * b[3] + 16 * b[4] + 8 * b[5] + 4 * b[6] + 2 * b[7] + b[8]

(***************************************************************************)
(* C15: for every bit string b, bits_to_bytes(b) has ceil(len(b)/8) bytes  *)
(* and bytes_to_bits(bits_to_bytes(b)) is b followed by (-len(b)) mod 8    *)
(* zero bits, fewer than 8, each byte read most significant bit first;     *)
(* the packed form of a message of n characters has ceil(5*(n+4)/8)        *)
(* bytes, at least 3 and never 0.                                          *)
(***************************************************************************)
C15_PackUnpack ==
    /\ (op = "bits_to_bytes")
          => LET padded == bitstring \o [j \in 1..PadLength(Len(bitstring)) |-> 0]
             IN  /\ Len(file.data) = CeilDiv(Len(bitstring), 8)
                 /\ PadLength(Len(bitstring)) < 8
                 /\ bytes_to_bits(file.data) = padded
                 /\ \A k \in 1..Len(file.data) :
                       file.data[k] = MsbFirst(SubSeq(padded, 8 * (k - 1) + 1, 8 * k))
    /\ (op = "bytes_to_bits")
          => /\ Len(bitstring) = 8 * Len(file.data)
             /\ bits_to_bytes(bitstring) = file.data
    /\ (op = "encode" /\ out.kind = "saved")
          => /\ Len(bitstring) = 5 * (Len(msg) + 4)
             /\ Len(build_encoded_bytes(msg)) = CeilDiv(5 * (Len(msg) + 4), 8)
             /\ Len(build_encoded_bytes(msg)) >= 3
             /\ file.data \in {build_encoded_bytes(msg), ZlibCompress(build_encoded_bytes(msg))}
             /\ Len(file.data) >= 3

\* nine bits were packed into two bytes, the second one 128
C15_Witness ==
    /\ op = "bits_to_bytes"
    /\ bitstring = <<0, 0, 0, 0, 0, 1, 0, 1, 1>>
    /\ file.data = <<5, 128>>

(***************************************************************************)
(* Vocabulary for the end of the scan.                                     *)
(***************************************************************************)
ScanEnded == scan.pc \in {"TERMINATED", "EXHAUSTED"}

\* the number of complete 5-bit chunks in the bytes the scan reads
CompleteChunks == (8 * Len(ScannedBytes(version, file.data))) \div 5

\* where the scan stands while it runs and after it
ScanWithinInput ==
    /\ scan.pc \in {"SCANNING", "TERMINATED", "EXHAUSTED"}
    /\ Len(bitstring) = 8 * Len(ScannedBytes(version, file.data))
    /\ version \notin ZlibVersions => Len(bitstring) = 8 * Len(file.data)
    /\ scan.i = 5 * ChunksRead
    /\ ChunksRead <= CompleteChunks
    /\ Len(scan.decoded) <= ChunksRead
    /\ scan.pc = "TERMINATED" => scan.stop_buffer = STOP_WORD
    /\ scan.pc = "EXHAUSTED"
          => /\ ChunksRead = CompleteChunks
             /\ ~HasStop(scan.decoded)

(***************************************************************************)
(* C16: for every byte sequence of n bytes the decode scan starts in       *)
(* SCANNING and eventually ends in exactly one of TERMINATED or EXHAUSTED  *)
(* after reading at most floor(8*n/5) five-bit chunks; a trailing group of *)
(* fewer than 5 bits is never decoded, and once a final state is reached   *)
(* no further chunk is read.                                               *)
(***************************************************************************)
C16_ScanTerminates ==
    /\ [](op \in {"scanning", "decode"} => ScanWithinInput)
    /\ [][decode_read_file => (scan'.pc = "SCANNING" /\ scan'.i = 0)]_vars
    /\ [][ScanEnded => scan' = scan]_vars
    /\ <>[](op = "decode" /\ ScanEnded)

\* the input ran out with a group of fewer than 5 bits left over
C16_Witness ==
    /\ op = "decode"
    /\ scan.pc = "EXHAUSTED"
    /\ Len(bitstring) % 5 /= 0
    /\ ChunksRead = Len(bitstring) \div 5
    /\ Len(scan.decoded) > 0
    /\ out.kind = "notfound"

====
